---- MODULE Spec2Model ----
(***************************************************************************)
(* Model of the text-to-speech pipeline of src/app.py:                     *)
(*   split_text_for_tts     (the chunker, a pure function)                 *)
(*   synthesize_voice       (one synthesis attempt against the TTS API)    *)
(*   synthesize_voice_full  (chunk loop, retries, concatenation)           *)
(* Python values are modelled as follows.  A str is a sequence of          *)
(* characters (strings), a bytes object is a sequence of 0..255, and an   *)
(* Optional value is None == <<>> or Some(v) == <<v>>.                     *)
(***************************************************************************)
EXTENDS Integers, Sequences, FiniteSets, TLC

(***************************************************************************)
(* Bounds of the model.                                                    *)
(***************************************************************************)
\* largest max_retries argument explored (the only caller uses the default 2)
MaxRetries == 2
\* the input texts are 0..MaxSentences sentences long
MaxSentences == 3
\* number of characters of one sentence of an input text, delimiter included
SentenceLen == 110
\* sentences of the longest text and retries of the calls whose termination
\* is checked
LiveSentences == 2
LiveRetries == 1
\* pieces a text handed to split_text_for_tts on its own is built of
NumPieces == 4
\* length of the run of letters among the pieces
RunLen == 29
\* largest of the small character budgets handed to the clipper
MaxBudget == 10
\* largest of the small text lengths handed to the clipper
MaxTextLen == 12

(***************************************************************************)
(* Program constants.                                                      *)
(***************************************************************************)
\* synthesize_voice_full always chunks with max_len=200
ChunkMaxLen == 200
\* minimum length of the buffer before a delimiter cuts it
MinChunkLen == 30
\* variant of MaxPolls: one poll too many
MaxPollsOffByOne == 20 + 1

\* for i in range(20): the maximum number of status polls
MaxPolls == 20

(***************************************************************************)
(* Python values.                                                          *)
(***************************************************************************)
None == <<>>
Some(v) == <<v>>

Rep(c, n) == [k \in 1..n |-> c]

RECURSIVE JoinReversed(_)
\* variant of Join: the parts are concatenated last to first
JoinReversed(parts) ==
    IF parts = <<>> THEN <<>> ELSE JoinReversed(Tail(parts)) \o Head(parts)

RECURSIVE Join(_)
\* b"".join(parts): byte concatenation in list order
Join(parts) ==
    IF parts = <<>> THEN <<>> ELSE Head(parts) \o Join(Tail(parts))

\* truth value of an Optional[bytes]: None and b"" are both falsy
Truthy(audio) == audio # None /\ Len(audio[1]) > 0

(***************************************************************************)
(* split_text_for_tts                                                      *)
(***************************************************************************)
\* a non-ASCII character is written as its code point: "U+3002" is the
\* ideographic full stop, "U+FF01" and "U+FF1F" the full-width ! and ?,
\* "U+3001" the ideographic comma
delimiters == <<"U+3002", "U+FF01", "U+FF1F", "!", "?", "U+3001", "\n">>

IsDelimiter(char) == \E k \in 1..Len(delimiters) : delimiters[k] = char

\* the characters str.strip() removes that occur in the modelled texts
Whitespace == {" ", "\t", "\n", "\r", "U+3000"}

\* s.strip(): s from its first to its last character that is not whitespace
Strip(s) ==
    LET keep == {k \in 1..Len(s) : s[k] \notin Whitespace}
    IN  IF keep = {} THEN <<>>
        ELSE SubSeq(s, CHOOSE k \in keep : \A h \in keep : k <= h,
                       CHOOSE k \in keep : \A h \in keep : h <= k)

\* current.rfind(d) as a 0-based index, -1 when d does not occur
RFind(current, d) ==
    LET hits == {k \in 1..Len(current) : current[k] = d}
    IN  IF hits = {} THEN -1
        ELSE (CHOOSE k \in hits : \A h \in hits : h <= k) - 1

\* the loop over the delimiters that keeps the largest rfind position
LastDelim(current) ==
    LET ps == {RFind(current, delimiters[k]) : k \in 1..Len(delimiters)} \cup {-1}
    IN  CHOOSE p \in ps : \A q \in ps : q <= p

\* variant of SplitStep: a buffer of exactly max_len characters that ends
\* with a delimiter is not cut
SplitStepStrictFit(max_len, st, char) ==
    LET current == Append(st.current, char)
    IN  IF IsDelimiter(char) /\ Len(current) >= MinChunkLen
        THEN IF Len(current) < max_len
             THEN [chunks |-> Append(st.chunks, Strip(current)), current |-> <<>>]
             ELSE [chunks |-> st.chunks, current |-> current]
        ELSE IF Len(current) >= max_len
        THEN LET last_delim == LastDelim(current)
             IN  IF last_delim > MinChunkLen
                 THEN [chunks  |-> Append(st.chunks,
                                          Strip(SubSeq(current, 1, last_delim + 1))),
                       current |-> SubSeq(current, last_delim + 2, Len(current))]
                 ELSE [chunks |-> Append(st.chunks, Strip(current)), current |-> <<>>]
        ELSE [chunks |-> st.chunks, current |-> current]

\* variant of SplitStep: the forced cut comes one character late
SplitStepCutsLate(max_len, st, char) ==
    LET current == Append(st.current, char)
    IN  IF IsDelimiter(char) /\ Len(current) >= MinChunkLen
        THEN IF Len(current) <= max_len
             THEN [chunks |-> Append(st.chunks, Strip(current)), current |-> <<>>]
             ELSE [chunks |-> st.chunks, current |-> current]
        ELSE IF Len(current) > max_len
        THEN LET last_delim == LastDelim(current)
             IN  IF last_delim > MinChunkLen
                 THEN [chunks  |-> Append(st.chunks,
                                          Strip(SubSeq(current, 1, last_delim + 1))),
                       current |-> SubSeq(current, last_delim + 2, Len(current))]
                 ELSE [chunks |-> Append(st.chunks, Strip(current)), current |-> <<>>]
        ELSE [chunks |-> st.chunks, current |-> current]

\* variant of SplitStep: the forced cut of line 191 loses the character just
\* read
SplitStepDropsChar(max_len, st, char) ==
    LET current == Append(st.current, char)
    IN  IF IsDelimiter(char) /\ Len(current) >= MinChunkLen
        THEN IF Len(current) <= max_len
             THEN [chunks |-> Append(st.chunks, Strip(current)), current |-> <<>>]
             ELSE [chunks |-> st.chunks, current |-> current]
        ELSE IF Len(current) >= max_len
        THEN LET last_delim == LastDelim(current)
             IN  IF last_delim > MinChunkLen
                 THEN [chunks  |-> Append(st.chunks,
                                          Strip(SubSeq(current, 1, last_delim + 1))),
                       current |-> SubSeq(current, last_delim + 2, Len(current))]
                 ELSE [chunks |-> Append(st.chunks, Strip(st.current)), current |-> <<>>]
        ELSE [chunks |-> st.chunks, current |-> current]

\* one iteration of the while loop: char == text[i] is appended to the
\* buffer, and the buffer is cut at a delimiter or at max_len.
\* st is the pair of loop variables [chunks, current].
SplitStep(max_len, st, char) ==
    LET current == Append(st.current, char)
    IN  IF IsDelimiter(char) /\ Len(current) >= MinChunkLen
        THEN IF Len(current) <= max_len
             THEN [chunks |-> Append(st.chunks, Strip(current)), current |-> <<>>]
             ELSE [chunks |-> st.chunks, current |-> current]
        ELSE IF Len(current) >= max_len
        THEN LET last_delim == LastDelim(current)
             IN  IF last_delim > MinChunkLen
                 THEN [chunks  |-> Append(st.chunks,
                                          Strip(SubSeq(current, 1, last_delim + 1))),
                       current |-> SubSeq(current, last_delim + 2, Len(current))]
                 ELSE [chunks |-> Append(st.chunks, Strip(current)), current |-> <<>>]
        ELSE [chunks |-> st.chunks, current |-> current]

RECURSIVE SplitScan(_, _, _, _, _)
\* the loop variables after the iterations for text[lo..hi], in index order.
\* The range is halved, and the loop variables after the first half are a
\* value (the one element of a set) before the second half starts, so that
\* long texts are scanned at a small evaluation depth and no half is
\* scanned twice.
SplitScan(text, max_len, st, lo, hi) ==
    IF lo > hi THEN st
    ELSE IF lo = hi THEN SplitStep(max_len, st, text[lo])
    ELSE LET mid == (lo + hi) \div 2
         IN  CHOOSE right \in { SplitScan(text, max_len, left, mid + 1, hi) :
                                  left \in {SplitScan(text, max_len, st, lo, mid)} } : TRUE

split_text_for_tts(text, max_len) ==
    IF Len(text) <= max_len
    THEN <<text>>
    ELSE LET st     == SplitScan(text, max_len, [chunks |-> <<>>, current |-> <<>>],
                                 1, Len(text))
             chunks == IF Strip(st.current) # <<>>
                       THEN Append(st.chunks, Strip(st.current))
                       ELSE st.chunks
         IN  SelectSeq(chunks, LAMBDA c : c # <<>>)

(***************************************************************************)
(* base64.b64decode, as synthesize_voice calls it (no validation): the     *)
(* characters outside the alphabet are skipped, a complete run of padding  *)
(* ends the input, and an incomplete last quad is an error.                *)
(***************************************************************************)
B64Alphabet ==
    << "A", "B", "C", "D", "E", "F", "G", "H", "I", "J", "K", "L", "M",
       "N", "O", "P", "Q", "R", "S", "T", "U", "V", "W", "X", "Y", "Z",
       "a", "b", "c", "d", "e", "f", "g", "h", "i", "j", "k", "l", "m",
       "n", "o", "p", "q", "r", "s", "t", "u", "v", "w", "x", "y", "z",
       "0", "1", "2", "3", "4", "5", "6", "7", "8", "9", "+", "/" >>

\* the 6-bit value of a character of the alphabet, 64 for any other one
B64Value(c) ==
    IF \E k \in 1..64 : B64Alphabet[k] = c
    THEN (CHOOSE k \in 1..64 : B64Alphabet[k] = c) - 1
    ELSE 64

RECURSIVE B64Scan(_, _, _, _, _)
\* the decoding loop: quad_pos is the position in the current quad, leftchar
\* the bits not yet written, pads the padding characters seen in a row.
\* The result is Some(bytes), or None when the decoder raises.
B64Scan(s, quad_pos, leftchar, pads, out) ==
    IF s = <<>>
    THEN IF quad_pos # 0 THEN None ELSE Some(out)
    ELSE
      LET c == Head(s)
          v == B64Value(c)
      IN  IF c = "="
          THEN IF quad_pos >= 2 /\ quad_pos + pads + 1 >= 4
               THEN Some(out)
               ELSE B64Scan(Tail(s), quad_pos, leftchar,
                            IF quad_pos >= 2 THEN pads + 1 ELSE pads, out)
          ELSE IF v >= 64
          THEN B64Scan(Tail(s), quad_pos, leftchar, pads, out)
          ELSE CASE quad_pos = 0 ->
                      B64Scan(Tail(s), 1, v, 0, out)
                 [] quad_pos = 1 ->
                      B64Scan(Tail(s), 2, v % 16, 0,
                              Append(out, (leftchar * 4 + v \div 16) % 256))
                 [] quad_pos = 2 ->
                      B64Scan(Tail(s), 3, v % 4, 0,
                              Append(out, (leftchar * 16 + v \div 4) % 256))
                 [] quad_pos = 3 ->
                      B64Scan(Tail(s), 0, 0, 0,
                              Append(out, (leftchar * 64 + v) % 256))

\* a JSON value of the response: a string or null
JsonString(s) == [type |-> "string", val |-> s]
JsonNull == [type |-> "null", val |-> <<>>]

\* base64.b64decode(value): None when it raises (TypeError for a value that
\* is not a string, binascii.Error for an incomplete quad)
b64decode(value) ==
    IF value.type # "string" THEN None ELSE B64Scan(value.val, 0, 0, 0, <<>>)

(***************************************************************************)
(* Results and error messages.  A result is the pair (audio, error) that   *)
(* synthesize_voice and synthesize_voice_full return.  An error message is *)
(* a record: msg is the fixed text of the f-string, arg names the value it *)
(* interpolates (the repr of a body is not spelled out), and the failure   *)
(* of a chunk carries its numbers and the error it quotes.                 *)
(***************************************************************************)
Result(audio, error) == [audio |-> audio, error |-> error]

Failure(err) == Result(None, Some(err))

\* f"API returned success=false: {data}"
ErrSuccessFalse == [msg |-> "API returned success=false", arg |-> "data"]
\* f"Audio generation error: {status_data}"
ErrAudioGeneration == [msg |-> "Audio generation error", arg |-> "status_data"]
\* f"Timeout after 20s polling (last status: {status_data})"
ErrPollTimeout == [msg |-> "Timeout after 20s polling", arg |-> "status_data"]
ErrNoUrls == [msg |-> "No audioStatusUrl or mp3DownloadUrl in response", arg |-> ""]
\* f"Exception: {e}", e being the exception raised at the place named by arg
ErrException(where) == [msg |-> "Exception", arg |-> where]

ErrNoText == [msg |-> "No text to synthesize"]
ErrNoAudio == [msg |-> "No audio generated"]

\* variant of ChunkFailure: the message cites the 0-based index
ChunkFailureZeroBased(i, total, retries, cause) ==
    [audio |-> None,
     error |-> Some([msg      |-> "Chunk failed",
                     ordinal  |-> i,
                     total    |-> total,
                     attempts |-> retries + 1,
                     cause    |-> cause])]

\* f"Chunk {i+1}/{len(chunks)} failed after {max_retries+1} attempts: {last_error}"
\* with i the 0-based index of the chunk
ChunkFailure(i, total, retries, cause) ==
    Failure([msg      |-> "Chunk failed",
             ordinal  |-> i + 1,
             total    |-> total,
             attempts |-> retries + 1,
             cause    |-> cause])

\* return b"".join(audio_parts), None
Success(parts) == Result(Some(Join(parts)), None)

\* variant of HasNextAttempt: one attempt too many
HasNextAttemptOffByOne(att, retries) == att + 1 < retries + 2

\* for attempt in range(max_retries + 1): is there an iteration after this one
HasNextAttempt(att, retries) == att + 1 < retries + 1

(***************************************************************************)
(* The remote service, as far as synthesize_voice can observe it.          *)
(***************************************************************************)
\* the bodies of the decoded and the downloaded audio
Contents == { <<>>, <<1>>, <<2, 3>> }

\* the values of the mp3Base64 key: null, "", "AQ==", "AgM=" and, with an
\* incomplete quad, "A"
Payloads ==
    { JsonNull,
      JsonString(<<>>),
      JsonString(<<"A", "Q", "=", "=">>),
      JsonString(<<"A", "g", "M", "=">>),
      JsonString(<<"A">>) }

\* the JSON body of the synthesis response: success is the truth value of
\* data.get("success"), mp3Base64 is None when the key is absent, and the
\* two URL fields tell whether data.get(...) is a non-empty string
Bodies ==
    [ success        : BOOLEAN,
      mp3Base64      : {None} \cup {Some(v) : v \in Payloads},
      audioStatusUrl : BOOLEAN,
      mp3DownloadUrl : BOOLEAN ]

\* an HTTP exchange either raises (connection error, raise_for_status on a
\* non-success status code, a body that is not JSON) or yields its body
Raises == [raised |-> TRUE, body |-> None]
Yields(body) == [raised |-> FALSE, body |-> Some(body)]

SynthesisResponses == {Raises} \cup {Yields(d) : d \in Bodies}

StatusBodies == [isAudioReady : BOOLEAN, isAudioError : BOOLEAN]
StatusResponses == {Raises} \cup {Yields(d) : d \in StatusBodies}

DownloadResponses == {Raises} \cup {Yields(c) : c \in Contents}

\* the status codes a status response arrives with; the polling loop calls
\* status_r.json() without raise_for_status(), so that a status response
\* with a JSON body yields that body whatever its status code is
StatusCodes == {200, 500}

\* the codes raise_for_status() accepts
IsSuccessCode(code) == code < 400

\* variant of ResponseBranch: the deferred references are looked at before
\* the inline payload
ResponseBranchDeferredFirst(data) ==
    IF ~data.success THEN "unsuccessful"
    ELSE IF data.audioStatusUrl /\ data.mp3DownloadUrl THEN "deferred"
    ELSE IF data.mp3Base64 # None THEN "inline"
    ELSE "malformed"

\* variant of ResponseBranch: one of the two references is enough to poll
ResponseBranchEitherUrl(data) ==
    IF ~data.success THEN "unsuccessful"
    ELSE IF data.mp3Base64 # None THEN "inline"
    ELSE IF data.audioStatusUrl \/ data.mp3DownloadUrl THEN "deferred"
    ELSE "malformed"

\* the branch synthesize_voice takes on the body of the synthesis response
ResponseBranch(data) ==
    IF ~data.success THEN "unsuccessful"
    ELSE IF data.mp3Base64 # None THEN "inline"
    ELSE IF data.audioStatusUrl /\ data.mp3DownloadUrl THEN "deferred"
    ELSE "malformed"

\* variant of PollBranch: isAudioError is tested before isAudioReady
PollBranchErrorFirst(status) ==
    IF status.isAudioError THEN "error"
    ELSE IF status.isAudioReady THEN "ready"
    ELSE "pending"

\* variant of PollBranch: isAudioError is not tested
PollBranchIgnoresError(status) ==
    IF status.isAudioReady THEN "ready" ELSE "pending"

\* the branch one iteration of the polling loop takes on the status body
PollBranch(status) ==
    IF status.isAudioReady THEN "ready"
    ELSE IF status.isAudioError THEN "error"
    ELSE "pending"

(***************************************************************************)
(* The input texts: n sentences of SentenceLen characters, each ending     *)
(* with an ideographic full stop, and a text of blanks only.               *)
(***************************************************************************)
Sentence(k) ==
    [j \in 1..SentenceLen |-> IF j = SentenceLen THEN "U+3002" ELSE B64Alphabet[26 + k]]

RECURSIVE Sentences(_)
Sentences(n) == IF n = 0 THEN <<>> ELSE Sentences(n - 1) \o Sentence(n)

BlankText == Rep(" ", ChunkMaxLen + 1)

Texts == {Sentences(n) : n \in 0..MaxSentences} \cup {BlankText}

(***************************************************************************)
(* The arguments of split_text_for_tts called on its own: texts of up to   *)
(* NumPieces pieces (nothing, a blank, a delimiter, a line break, a letter *)
(* or a run of RunLen letters), and chunk lengths below and above twice    *)
(* the 30 characters of line 175.                                          *)
(***************************************************************************)
Pieces == { <<>>, <<" ">>, <<"!">>, <<"\n">>, <<"a">>, Rep("b", RunLen) }

RECURSIVE TextsOf(_)
TextsOf(n) ==
    IF n = 0 THEN { <<>> }
    ELSE { t \o p : t \in TextsOf(n - 1), p \in Pieces }

SplitTexts == TextsOf(NumPieces)

SplitMaxLens == {5, MinChunkLen + 1, 45, 2 * MinChunkLen + 1}

(***************************************************************************)
(* The clipper.  max_chars * 0.7 and max_chars * 0.3 are products of IEEE  *)
(* doubles, rounded to nearest and then truncated by int().  The double    *)
(* 0.7 is 0.4 * 2^-53 below 7/10 and the double 0.3 is 0.2 * 2^-54 below   *)
(* 3/10; for |max_chars| < 2^31 the truncated product is the exact floor   *)
(* unless 7 * max_chars / 10 is an integer m whose rounded product falls   *)
(* on the double below m, which happens when 4 * m > 7 * 2^floor(log2 m).  *)
(* The product with 0.3 never falls below an integer.                      *)
(***************************************************************************)
RECURSIVE Log2Floor(_)
Log2Floor(m) == IF m < 2 THEN 0 ELSE 1 + Log2Floor(m \div 2)

RECURSIVE Pow2(_)
Pow2(e) == IF e = 0 THEN 1 ELSE 2 * Pow2(e - 1)

\* int(max_chars * 0.7), max_chars >= 0
IntTimes07(max_chars) ==
    LET m == (7 * max_chars) \div 10
    IN  IF max_chars % 10 = 0 /\ m > 0 /\ 4 * m > 7 * Pow2(Log2Floor(m))
        THEN m - 1
        ELSE m

\* int(max_chars * 0.3), max_chars >= 0
IntTimes03(max_chars) == (3 * max_chars) \div 10

\* the literal of line 344: two line breaks, three dots, the two ideographs
\* in parentheses, three dots, two line breaks
ElisionMarker ==
    <<"\n", "\n", ".", ".", ".", "(", "U+4E2D", "U+7565", ")", ".", ".", ".", "\n", "\n">>

\* text[:n], n >= 0
SliceTo(s, n) == SubSeq(s, 1, IF n < Len(s) THEN n ELSE Len(s))

\* text[-n:], n >= 0: -0 is 0, so that n = 0 gives the whole text
SliceFromEnd(s, n) ==
    IF n = 0 THEN s
    ELSE IF n >= Len(s) THEN s
    ELSE SubSeq(s, Len(s) - n + 1, Len(s))

\* lines 342-344: the value of clipped in the else branch
Clip(s, max_chars) ==
    LET head == SliceTo(s, IntTimes07(max_chars))
        tail == SliceFromEnd(s, IntTimes03(max_chars))
    IN  head \o ElisionMarker \o tail

\* the arguments: texts of distinct neighbouring characters, of the small
\* lengths and of one length above the budget 90; the small budgets, and 90
\* where the product with 0.7 is rounded below 63
ClipText(n) == [k \in 1..n |-> B64Alphabet[((k - 1) % 64) + 1]]

ClipTexts == {ClipText(n) : n \in (0..MaxTextLen) \cup {95}}

ClipBudgets == (0..MaxBudget) \cup {90}

(***************************************************************************)
(* The prompt presets.  A preset name and a prompt text are strings; the   *)
(* dict prompts is the sequence of its entries [name, text] in insertion   *)
(* order (the order of iter(prompts.keys())).                              *)
(***************************************************************************)
DefaultName == <<"d", "e", "f", "a", "u", "l", "t">>

\* stands for the text of lines 21-28, which ends with a line break
DEFAULT_BUDDY_PROMPT == <<"b", "u", "d", "d", "y", "\n">>

\* lines 46-52
_default_store ==
    [active  |-> DefaultName,
     prompts |-> <<[name |-> DefaultName, text |-> DEFAULT_BUDDY_PROMPT]>>]

\* prompts.keys(), in insertion order
Keys(prompts) == [k \in 1..Len(prompts) |-> prompts[k].name]

HasKey(prompts, name) == \E k \in 1..Len(prompts) : prompts[k].name = name

\* prompts[name] = text: a known key keeps its place, a new one goes last
Put(prompts, name, value) ==
    IF HasKey(prompts, name)
    THEN [k \in 1..Len(prompts) |->
            IF prompts[k].name = name THEN [name |-> name, text |-> value]
            ELSE prompts[k]]
    ELSE Append(prompts, [name |-> name, text |-> value])

\* prompts.pop(name, None)
Pop(prompts, name) == SelectSeq(prompts, LAMBDA e : e.name # name)

\* PROMPTS_FILE: missing; not JSON or not a JSON object; or an object whose
\* key "prompts" holds a dict (Some) or is missing or no dict (None), and
\* whose key "active" holds a name (Some) or is missing (None)
NoFile == [exists |-> FALSE, object |-> FALSE, prompts |-> None, active |-> None]
BadFile == [exists |-> TRUE, object |-> FALSE, prompts |-> None, active |-> None]
FileOf(prompts, active) ==
    [exists |-> TRUE, object |-> TRUE, prompts |-> prompts, active |-> active]

\* lines 55-66
load_store(file) ==
    IF ~file.exists THEN _default_store
    ELSE IF ~file.object THEN _default_store
    ELSE IF file.prompts = None THEN _default_store
    ELSE LET prompts == file.prompts[1]
         IN  IF file.active = None \/ ~HasKey(prompts, file.active[1])
             THEN [active  |-> IF prompts # <<>> THEN Keys(prompts)[1] ELSE DefaultName,
                   prompts |-> prompts]
             ELSE [active |-> file.active[1], prompts |-> prompts]

\* lines 69-71: what save_store leaves in the file
Saved(store) == FileOf(Some(store.prompts), Some(store.active))

\* the files a session may start from
FileEntry(name) == [name |-> name, text |-> <<"x">>]

FilePrompts ==
    { <<>>,
      <<FileEntry(DefaultName)>>,
      <<FileEntry(<<"a">>)>>,
      <<FileEntry(DefaultName), FileEntry(<<"a">>)>>,
      <<FileEntry(<<"a">>), FileEntry(DefaultName)>> }

FileActives == {None, Some(DefaultName), Some(<<"a">>), Some(<<"z">>)}

Files ==
    {NoFile, BadFile}
    \cup {FileOf(None, a) : a \in FileActives}
    \cup {FileOf(Some(p), a) : p \in FilePrompts, a \in FileActives}

\* what the user types: the name of a new preset, the text of a preset
NewNames == { <<>>, <<" ">>, <<"a">>, <<" ", "b", " ">>, DefaultName }

Edits == { <<>>, <<"x">>, <<" ", "y", "\n">> }

(***************************************************************************)
(* State.                                                                  *)
(***************************************************************************)
VARIABLES
    \* synthesize_voice_full: arguments, locals and return value
    text,           \* the text argument
    max_retries,    \* the max_retries argument
    pc,             \* "off", "call", "chunk", "attempt", "wait" (inside synthesize_voice), "done"
    chunks,         \* the list split_text_for_tts returned
    i,              \* index of the chunk being processed (0-based, as in the code)
    attempt,        \* index of the attempt of the inner loop (0-based)
    audio_parts,    \* the audio of the chunks finished so far
    audio_data,     \* audio returned by the last attempt
    last_error,     \* error kept from the last failed attempt
    result,         \* None, or Some(return value) once the call has returned
    \* synthesize_voice: position, locals and return value of the running call
    cpc,            \* "idle", "request", "poll", "download", "return"
    data,           \* None, or Some(body of the synthesis response)
    status_data,    \* None, or Some(body of the last status response)
    cresult,        \* None, or Some(return value) of the call
    \* observations of one synthesize_voice call
    requests,       \* synthesis requests sent
    pollLog,        \* the status responses received, in order
    downloadLog,    \* the download responses received, in order
    httpFailed,     \* an HTTP exchange of the call ended in a connection error, a
                    \* non-success status code or a body that is not JSON
    \* observations of one synthesize_voice_full call
    requested,      \* ordinals (1-based) of the chunks synthesize_voice was called for
    attempts,       \* synthesize_voice calls made for the current chunk
    chunkLog,       \* audio returned by each finished attempt of the current chunk
    lastReturned,   \* chunk index and error of the last finished attempt
    slept,          \* pacing waits of the call, backoff waits of the current chunk
    \* split_text_for_tts called on its own: arguments, position, locals and
    \* return value
    split_text,     \* the text argument
    split_max_len,  \* the max_len argument
    split_pc,       \* "off", "call", "scan" (in the while loop), "done"
    split_i,        \* the loop index i (0-based, as in the code)
    split_st,       \* the loop variables [chunks, current]
    split_out,      \* None, or Some([raised, value]): how the call ended
    \* build_summary_prompt / build_prompt: arguments, position and the local
    \* clipped that the returned prompt embeds
    clip_text,      \* the text argument
    clip_max_chars, \* the max_chars argument
    clip_pc,        \* "off", "call", "done"
    clipped,        \* None, or Some(the clipped text)
    \* the prompt presets: the session's store, the file it is saved to, and
    \* how the last run of the settings tab ended
    prompt_store,   \* st.session_state["prompt_store"]: [active, prompts]
    prompts_file,   \* the content of PROMPTS_FILE
    store_pc,       \* "off", or "idle" between two runs of the script
    store_raised    \* TRUE if the last run of the settings tab raised

orchVars == <<text, max_retries, pc, chunks, i, attempt, audio_parts, audio_data,
              last_error, result>>
clientVars == <<cpc, data, status_data, cresult>>
clientObs == <<requests, pollLog, downloadLog, httpFailed>>
orchObs == <<requested, attempts, chunkLog, lastReturned, slept>>
ttsVars == <<orchVars, clientVars, clientObs, orchObs>>
splitVars == <<split_text, split_max_len, split_pc, split_i, split_st, split_out>>
clipVars == <<clip_text, clip_max_chars, clip_pc, clipped>>
storeVars == <<prompt_store, prompts_file, store_pc, store_raised>>
pureVars == <<splitVars, clipVars, storeVars>>
vars == <<ttsVars, pureVars>>

\* no call of synthesize_voice_full: its variables rest
TtsOff ==
    /\ text = <<>>
    /\ max_retries = 0
    /\ pc = "off"
    /\ chunks = <<>>
    /\ i = 0
    /\ attempt = 0
    /\ audio_parts = <<>>
    /\ audio_data = None
    /\ last_error = None
    /\ result = None
    /\ cpc = "idle"
    /\ data = None
    /\ status_data = None
    /\ cresult = None
    /\ requests = 0
    /\ pollLog = <<>>
    /\ downloadLog = <<>>
    /\ httpFailed = FALSE
    /\ requested = {}
    /\ attempts = 0
    /\ chunkLog = <<>>
    /\ lastReturned = None
    /\ slept = [pacing |-> 0, backoff |-> 0]

\* a call of synthesize_voice_full is about to start
TtsInit ==
    /\ text \in Texts
    /\ max_retries \in 0..MaxRetries
    /\ pc = "call"
    /\ chunks = <<>>
    /\ i = 0
    /\ attempt = 0
    /\ audio_parts = <<>>
    /\ audio_data = None
    /\ last_error = None
    /\ result = None
    /\ cpc = "idle"
    /\ data = None
    /\ status_data = None
    /\ cresult = None
    /\ requests = 0
    /\ pollLog = <<>>
    /\ downloadLog = <<>>
    /\ httpFailed = FALSE
    /\ requested = {}
    /\ attempts = 0
    /\ chunkLog = <<>>
    /\ lastReturned = None
    /\ slept = [pacing |-> 0, backoff |-> 0]

\* no call of split_text_for_tts on its own: its variables rest
SplitOff ==
    /\ split_text = <<>>
    /\ split_max_len = 0
    /\ split_pc = "off"
    /\ split_i = 0
    /\ split_st = [chunks |-> <<>>, current |-> <<>>]
    /\ split_out = None

\* no call of build_summary_prompt / build_prompt: its variables rest
ClipOff ==
    /\ clip_text = <<>>
    /\ clip_max_chars = 0
    /\ clip_pc = "off"
    /\ clipped = None

\* the settings tab is not used: its variables rest
StoreOff ==
    /\ prompt_store = _default_store
    /\ prompts_file = NoFile
    /\ store_pc = "off"
    /\ store_raised = FALSE

Init ==
    /\ TtsInit
    /\ SplitOff
    /\ ClipOff
    /\ StoreOff

(***************************************************************************)
(* synthesize_voice: one attempt for one chunk.                            *)
(***************************************************************************)
\* the call returns r to synthesize_voice_full
ClientReturn(r) ==
    /\ cpc' = "return"
    /\ cresult' = Some(r)

\* lines 207-226 and 239: the synthesis request is sent and its response
\* is examined
ClientRequest ==
    /\ cpc = "request"
    /\ requests' = requests + 1
    /\ \E resp \in SynthesisResponses :
         IF resp.raised
         THEN /\ ClientReturn(Failure(ErrException("synthesis request")))
              /\ httpFailed' = TRUE
              /\ UNCHANGED data
         ELSE LET d      == resp.body[1]
                  branch == ResponseBranch(d)
              IN  /\ data' = Some(d)
                  /\ UNCHANGED httpFailed
                  /\ CASE branch = "unsuccessful" ->
                            ClientReturn(Failure(ErrSuccessFalse))
                       [] branch = "inline" ->
                            LET decoded == b64decode(d.mp3Base64[1])
                            IN  IF decoded = None
                                THEN ClientReturn(Failure(ErrException("b64decode")))
                                ELSE ClientReturn(Result(decoded, None))
                       [] branch = "deferred" ->
                            /\ cpc' = "poll"
                            /\ UNCHANGED cresult
                       [] branch = "malformed" ->
                            ClientReturn(Failure(ErrNoUrls))
    /\ UNCHANGED <<status_data, pollLog, downloadLog>>
    /\ UNCHANGED <<orchVars, orchObs, pureVars>>

\* lines 228-238: one iteration of the polling loop (the time.sleep(1)
\* after a pending status is part of the iteration); when the last
\* iteration leaves the status pending the loop ends and the call returns
\* the timeout
ClientPoll ==
    /\ cpc = "poll"
    /\ Len(pollLog) < MaxPolls
    /\ \E resp \in StatusResponses, code \in StatusCodes :
         /\ pollLog' = Append(pollLog, resp)
         /\ httpFailed' = (httpFailed \/ resp.raised \/ ~IsSuccessCode(code))
         /\ IF resp.raised
            THEN /\ ClientReturn(Failure(ErrException("status poll")))
                 /\ UNCHANGED status_data
            ELSE LET st     == resp.body[1]
                     branch == PollBranch(st)
                 IN  /\ status_data' = Some(st)
                     /\ CASE branch = "ready" ->
                               /\ cpc' = "download"
                               /\ UNCHANGED cresult
                          [] branch = "error" ->
                               ClientReturn(Failure(ErrAudioGeneration))
                          [] branch = "pending" ->
                               IF Len(pollLog) + 1 < MaxPolls
                               THEN UNCHANGED <<cpc, cresult>>
                               ELSE ClientReturn(Failure(ErrPollTimeout))
    /\ UNCHANGED <<data, requests, downloadLog>>
    /\ UNCHANGED <<orchVars, orchObs, pureVars>>

\* lines 232-234: the audio is fetched from mp3DownloadUrl
ClientDownload ==
    /\ cpc = "download"
    /\ \E resp \in DownloadResponses :
         /\ downloadLog' = Append(downloadLog, resp)
         /\ httpFailed' = (httpFailed \/ resp.raised)
         /\ IF resp.raised
            THEN ClientReturn(Failure(ErrException("download")))
            ELSE ClientReturn(Result(Some(resp.body[1]), None))
    /\ UNCHANGED <<data, status_data, requests, pollLog>>
    /\ UNCHANGED <<orchVars, orchObs, pureVars>>

(***************************************************************************)
(* synthesize_voice_full                                                   *)
(***************************************************************************)
\* the call returns r to its caller
Return(r) ==
    /\ pc' = "done"
    /\ result' = Some(r)

\* lines 246-248: the chunker yields no chunk
CallEmpty ==
    /\ pc = "call"
    /\ split_text_for_tts(text, ChunkMaxLen) = <<>>
    /\ chunks' = split_text_for_tts(text, ChunkMaxLen)
    /\ Return(Failure(ErrNoText))
    /\ UNCHANGED <<text, max_retries, i, attempt, audio_parts, audio_data, last_error>>
    /\ UNCHANGED <<clientVars, clientObs, orchObs, pureVars>>

\* variant of CallStart: the test of line 247 is missing
CallStartUnguarded ==
    /\ pc = "call"
    /\ chunks' = split_text_for_tts(text, ChunkMaxLen)
    /\ audio_parts' = <<>>
    /\ i' = 0
    /\ pc' = "chunk"
    /\ UNCHANGED <<text, max_retries, attempt, audio_data, last_error, result>>
    /\ UNCHANGED <<clientVars, clientObs, orchObs, pureVars>>

\* lines 246-251: the chunks are computed and the loop over them starts
CallStart ==
    /\ pc = "call"
    /\ split_text_for_tts(text, ChunkMaxLen) # <<>>
    /\ chunks' = split_text_for_tts(text, ChunkMaxLen)
    /\ audio_parts' = <<>>
    /\ i' = 0
    /\ pc' = "chunk"
    /\ UNCHANGED <<text, max_retries, attempt, audio_data, last_error, result>>
    /\ UNCHANGED <<clientVars, clientObs, orchObs, pureVars>>

\* lines 253-259: the pacing wait before every chunk but the first, the
\* reset of the per-chunk locals, and the entry of the attempt loop
BeginChunk ==
    /\ pc = "chunk"
    /\ slept' = [pacing |-> IF i > 0 THEN slept.pacing + 1 ELSE slept.pacing, backoff |-> 0]
    /\ audio_data' = None
    /\ last_error' = None
    /\ chunkLog' = <<>>
    /\ attempts' = 0
    /\ IF max_retries + 1 > 0
       THEN /\ attempt' = 0
            /\ pc' = "attempt"
            /\ UNCHANGED result
       ELSE /\ Return(ChunkFailure(i, Len(chunks), max_retries, None))
            /\ UNCHANGED attempt
    /\ UNCHANGED <<text, max_retries, chunks, i, audio_parts>>
    /\ UNCHANGED <<clientVars, clientObs, requested, lastReturned, pureVars>>

\* variant of IssueAttempt: the backoff wait is performed before the first
\* attempt too
IssueAttemptAlwaysWaits ==
    /\ pc = "attempt"
    /\ slept' = [slept EXCEPT !.backoff = @ + 1]
    /\ requested' = requested \cup {i + 1}
    /\ attempts' = attempts + 1
    /\ pc' = "wait"
    /\ cpc' = "request"
    /\ UNCHANGED <<data, status_data, cresult, clientObs>>
    /\ UNCHANGED <<text, max_retries, chunks, i, attempt, audio_parts, audio_data,
                   last_error, result>>
    /\ UNCHANGED <<chunkLog, lastReturned, pureVars>>

\* lines 260-262: the backoff wait before every attempt but the first, then
\* the call of synthesize_voice
IssueAttempt ==
    /\ pc = "attempt"
    /\ slept' = IF attempt > 0 THEN [slept EXCEPT !.backoff = @ + 1] ELSE slept
    /\ requested' = requested \cup {i + 1}
    /\ attempts' = attempts + 1
    /\ pc' = "wait"
    /\ cpc' = "request"
    /\ UNCHANGED <<data, status_data, cresult, clientObs>>
    /\ UNCHANGED <<text, max_retries, chunks, i, attempt, audio_parts, audio_data,
                   last_error, result>>
    /\ UNCHANGED <<chunkLog, lastReturned, pureVars>>

\* line 262: synthesize_voice has returned, its result is unpacked and its
\* locals are gone
Returned ==
    /\ pc = "wait"
    /\ cpc = "return"
    /\ cpc' = "idle"
    /\ data' = None
    /\ status_data' = None
    /\ cresult' = None
    /\ requests' = 0
    /\ pollLog' = <<>>
    /\ downloadLog' = <<>>
    /\ httpFailed' = FALSE
    /\ audio_data' = cresult[1].audio
    /\ chunkLog' = Append(chunkLog, cresult[1].audio)
    /\ lastReturned' = Some([chunk |-> i, error |-> cresult[1].error])
    /\ UNCHANGED <<text, max_retries, chunks, requested, attempts, slept, pureVars>>

\* lines 263-269: the attempt gave audio and a chunk follows
ChunkDone ==
    /\ Returned
    /\ Truthy(cresult[1].audio)
    /\ i + 1 < Len(chunks)
    /\ audio_parts' = Append(audio_parts, cresult[1].audio[1])
    /\ i' = i + 1
    /\ pc' = "chunk"
    /\ UNCHANGED <<attempt, last_error, result>>

\* lines 263-275: the attempt gave audio for the last chunk; the parts are
\* joined and returned
LastChunkDone ==
    /\ Returned
    /\ Truthy(cresult[1].audio)
    /\ ~(i + 1 < Len(chunks))
    /\ audio_parts' = Append(audio_parts, cresult[1].audio[1])
    /\ IF audio_parts' = <<>>
       THEN Return(Failure(ErrNoAudio))
       ELSE Return(Success(audio_parts'))
    /\ UNCHANGED <<i, attempt, last_error>>

\* variant of AttemptFailed: the loop goes on without counting the attempt
AttemptFailedNoCount ==
    /\ Returned
    /\ ~Truthy(cresult[1].audio)
    /\ HasNextAttempt(attempt, max_retries)
    /\ last_error' = cresult[1].error
    /\ pc' = "attempt"
    /\ UNCHANGED <<i, attempt, audio_parts, result>>

\* lines 263-265 and 259: the attempt gave no audio and the loop goes on
AttemptFailed ==
    /\ Returned
    /\ ~Truthy(cresult[1].audio)
    /\ HasNextAttempt(attempt, max_retries)
    /\ last_error' = cresult[1].error
    /\ attempt' = attempt + 1
    /\ pc' = "attempt"
    /\ UNCHANGED <<i, audio_parts, result>>

\* variant of ChunkFailed: the audio of the chunks finished before the
\* failing one is returned along with the error
ChunkFailedKeepsPartial ==
    /\ Returned
    /\ ~Truthy(cresult[1].audio)
    /\ ~HasNextAttempt(attempt, max_retries)
    /\ last_error' = cresult[1].error
    /\ Return(Result(Some(Join(audio_parts)),
                     ChunkFailure(i, Len(chunks), max_retries, last_error').error))
    /\ UNCHANGED <<i, attempt, audio_parts>>

\* variant of ChunkFailed: the failed chunk is given up and the loop goes on
\* with the chunk after it
ChunkFailedSkips ==
    /\ Returned
    /\ ~Truthy(cresult[1].audio)
    /\ ~HasNextAttempt(attempt, max_retries)
    /\ last_error' = cresult[1].error
    /\ IF i + 1 < Len(chunks)
       THEN /\ i' = i + 1
            /\ pc' = "chunk"
            /\ UNCHANGED result
       ELSE /\ Return(ChunkFailure(i, Len(chunks), max_retries, last_error'))
            /\ UNCHANGED i
    /\ UNCHANGED <<attempt, audio_parts>>

\* lines 263-268: the last attempt gave no audio; the call returns the
\* failure of the chunk
ChunkFailed ==
    /\ Returned
    /\ ~Truthy(cresult[1].audio)
    /\ ~HasNextAttempt(attempt, max_retries)
    /\ last_error' = cresult[1].error
    /\ Return(ChunkFailure(i, Len(chunks), max_retries, last_error'))
    /\ UNCHANGED <<i, attempt, audio_parts>>

Next ==
    \/ CallEmpty
    \/ CallStart
    \/ BeginChunk
    \/ IssueAttempt
    \/ ClientRequest
    \/ ClientPoll
    \/ ClientDownload
    \/ ChunkDone
    \/ LastChunkDone
    \/ AttemptFailed
    \/ ChunkFailed

Spec == Init /\ [][Next]_vars

\* The calls whose termination is checked.  Every step of the call is taken
\* once it can be: the code is one thread, every requests.get carries a
\* timeout (lines 210, 229, 232) and so returns or raises, and every
\* time.sleep ends.
InitLive ==
    /\ TtsInit
    /\ text \in {Sentences(n) : n \in 0..LiveSentences} \cup {BlankText}
    /\ max_retries \in 0..LiveRetries
    /\ SplitOff
    /\ ClipOff
    /\ StoreOff

SpecLive == InitLive /\ [][Next]_vars /\ WF_vars(Next)

(***************************************************************************)
(* split_text_for_tts (lines 159-198) called on its own, one loop          *)
(* iteration at a time.                                                    *)
(***************************************************************************)
\* the function returns value (it has no raise statement)
SplitReturn(value) ==
    /\ split_out' = Some([raised |-> FALSE, value |-> value])
    /\ split_pc' = "done"

\* lines 161-162: a text no longer than max_len is returned as it is
SplitShort ==
    /\ split_pc = "call"
    /\ Len(split_text) <= split_max_len
    /\ SplitReturn(<<split_text>>)
    /\ UNCHANGED <<split_text, split_max_len, split_i, split_st>>
    /\ UNCHANGED <<ttsVars, clipVars, storeVars>>

\* variant of SplitEnter: a max_len below twice the minimum is rejected
SplitEnterValidates ==
    /\ split_pc = "call"
    /\ ~(Len(split_text) <= split_max_len)
    /\ IF split_max_len < 2 * MinChunkLen
       THEN /\ split_out' = Some([raised |-> TRUE, value |-> <<>>])
            /\ split_pc' = "done"
            /\ UNCHANGED <<split_st, split_i>>
       ELSE /\ split_st' = [chunks |-> <<>>, current |-> <<>>]
            /\ split_i' = 0
            /\ split_pc' = "scan"
            /\ UNCHANGED split_out
    /\ UNCHANGED <<split_text, split_max_len>>
    /\ UNCHANGED <<ttsVars, clipVars, storeVars>>

\* lines 164-169: the loop variables are initialised
SplitEnter ==
    /\ split_pc = "call"
    /\ ~(Len(split_text) <= split_max_len)
    /\ split_st' = [chunks |-> <<>>, current |-> <<>>]
    /\ split_i' = 0
    /\ split_pc' = "scan"
    /\ UNCHANGED <<split_text, split_max_len, split_out>>
    /\ UNCHANGED <<ttsVars, clipVars, storeVars>>

\* lines 170-193: one iteration of the while loop
SplitIter ==
    /\ split_pc = "scan"
    /\ split_i < Len(split_text)
    /\ split_st' = SplitStep(split_max_len, split_st, split_text[split_i + 1])
    /\ split_i' = split_i + 1
    /\ UNCHANGED <<split_text, split_max_len, split_pc, split_out>>
    /\ UNCHANGED <<ttsVars, clipVars, storeVars>>

\* lines 195-198: the rest is flushed and the empty chunks are dropped
SplitFinish ==
    /\ split_pc = "scan"
    /\ ~(split_i < Len(split_text))
    /\ LET chunks_ == IF Strip(split_st.current) # <<>>
                      THEN Append(split_st.chunks, Strip(split_st.current))
                      ELSE split_st.chunks
       IN  SplitReturn(SelectSeq(chunks_, LAMBDA c : c # <<>>))
    /\ UNCHANGED <<split_text, split_max_len, split_i, split_st>>
    /\ UNCHANGED <<ttsVars, clipVars, storeVars>>

InitSplit ==
    /\ TtsOff
    /\ split_text \in SplitTexts
    /\ split_max_len \in SplitMaxLens
    /\ split_pc = "call"
    /\ split_i = 0
    /\ split_st = [chunks |-> <<>>, current |-> <<>>]
    /\ split_out = None
    /\ ClipOff
    /\ StoreOff

NextSplit ==
    \/ SplitShort
    \/ SplitEnter
    \/ SplitIter
    \/ SplitFinish

SpecSplit == InitSplit /\ [][NextSplit]_vars

(***************************************************************************)
(* build_summary_prompt (src/app.py lines 338-344) and build_prompt        *)
(* (src/url_to_summary_lmstudio.py lines 56-62): the same clipping code.   *)
(* The returned prompt embeds the local clipped, which is what is kept.    *)
(***************************************************************************)
\* the branch of lines 339-340: the text fits max_chars
ClipKeep ==
    /\ clip_pc = "call"
    /\ Len(clip_text) <= clip_max_chars
    /\ clipped' = Some(clip_text)
    /\ clip_pc' = "done"
    /\ UNCHANGED <<clip_text, clip_max_chars>>
    /\ UNCHANGED <<ttsVars, splitVars, storeVars>>

\* the branch of lines 341-344: head, marker and tail
ClipCut ==
    /\ clip_pc = "call"
    /\ ~(Len(clip_text) <= clip_max_chars)
    /\ clipped' = Some(Clip(clip_text, clip_max_chars))
    /\ clip_pc' = "done"
    /\ UNCHANGED <<clip_text, clip_max_chars>>
    /\ UNCHANGED <<ttsVars, splitVars, storeVars>>

InitClip ==
    /\ TtsOff
    /\ SplitOff
    /\ clip_text \in ClipTexts
    /\ clip_max_chars \in ClipBudgets
    /\ clip_pc = "call"
    /\ clipped = None
    /\ StoreOff

NextClip ==
    \/ ClipKeep
    \/ ClipCut

SpecClip == InitClip /\ [][NextClip]_vars

(***************************************************************************)
(* The settings tab (lines 656-745).  One action is one run of the script  *)
(* in which the user has chosen a preset in the select box and pressed one *)
(* button: the repair of lines 660-666 comes first, then the handler of    *)
(* the button with its save_store.                                         *)
(***************************************************************************)
\* lines 660-666: a store without presets is replaced by the default store
NeedsRepair(store) == store.prompts = <<>>

Repaired(store) == IF NeedsRepair(store) THEN _default_store ELSE store

\* the run ends normally with this store; saved tells whether the handler
\* has called save_store (the repair calls it too)
StoreRunEnds(store, saved) ==
    /\ prompt_store' = store
    /\ prompts_file' = IF saved \/ NeedsRepair(prompt_store)
                       THEN Saved(store)
                       ELSE prompts_file
    /\ store_raised' = FALSE
    /\ UNCHANGED store_pc
    /\ UNCHANGED <<ttsVars, splitVars, clipVars>>

\* the options of the select box (line 668; their order plays no part)
Names(store) == {store.prompts[k].name : k \in 1..Len(store.prompts)}

\* lines 675-679: the selected preset becomes the active one
ApplyPreset ==
    /\ store_pc = "idle"
    /\ LET store == Repaired(prompt_store)
       IN  \E selected \in Names(store) :
               StoreRunEnds([store EXCEPT !.active = selected], TRUE)

\* lines 693-698: the edited text is stored under the selected preset
OverwritePreset ==
    /\ store_pc = "idle"
    /\ LET store == Repaired(prompt_store)
       IN  \E selected \in Names(store), edited \in Edits :
               StoreRunEnds([store EXCEPT !.prompts = Put(@, selected, Strip(edited))],
                            TRUE)

\* lines 701-707: the selected preset gets the default text
ResetPreset ==
    /\ store_pc = "idle"
    /\ LET store == Repaired(prompt_store)
       IN  \E selected \in Names(store) :
               StoreRunEnds([store EXCEPT
                                !.prompts = Put(@, selected, DEFAULT_BUDDY_PROMPT)],
                            TRUE)

\* lines 719-732: a preset of a new name is created and becomes active
CreatePreset ==
    /\ store_pc = "idle"
    /\ LET store == Repaired(prompt_store)
       IN  \E new_name \in NewNames :
               LET nn == Strip(new_name)
               IN  IF nn = <<>> \/ HasKey(store.prompts, nn)
                   THEN StoreRunEnds(store, FALSE)
                   ELSE StoreRunEnds([active  |-> nn,
                                      prompts |-> Put(store.prompts, nn,
                                                      DEFAULT_BUDDY_PROMPT)],
                                     TRUE)

\* lines 734-745: the selected preset is deleted.  When the last preset is
\* popped, next(iter(prompts.keys())) of line 741 raises StopIteration: the
\* dict of the session's store has lost the entry, and lines 742-745 are
\* not reached.
DeletePreset ==
    /\ store_pc = "idle"
    /\ LET store == Repaired(prompt_store)
       IN  \E selected \in Names(store) :
               IF selected = DefaultName
               THEN StoreRunEnds(store, FALSE)
               ELSE LET prompts == Pop(store.prompts, selected)
                    IN  IF store.active # selected
                        THEN StoreRunEnds([store EXCEPT !.prompts = prompts], TRUE)
                        ELSE IF HasKey(prompts, DefaultName)
                        THEN StoreRunEnds([active |-> DefaultName, prompts |-> prompts],
                                          TRUE)
                        ELSE IF prompts # <<>>
                        THEN StoreRunEnds([active |-> Keys(prompts)[1],
                                           prompts |-> prompts], TRUE)
                        ELSE /\ prompt_store' = [store EXCEPT !.prompts = prompts]
                             /\ prompts_file' = IF NeedsRepair(prompt_store)
                                                THEN Saved(store)
                                                ELSE prompts_file
                             /\ store_raised' = TRUE
                             /\ UNCHANGED store_pc
                             /\ UNCHANGED <<ttsVars, splitVars, clipVars>>

\* lines 397-398: the session starts with the store that load_store returns
InitStore ==
    /\ TtsOff
    /\ SplitOff
    /\ ClipOff
    /\ prompts_file \in Files
    /\ prompt_store = load_store(prompts_file)
    /\ store_pc = "idle"
    /\ store_raised = FALSE

NextStore ==
    \/ ApplyPreset
    \/ OverwritePreset
    \/ ResetPreset
    \/ CreatePreset
    \/ DeletePreset

SpecStore == InitStore /\ [][NextStore]_vars

(***************************************************************************)
(* Properties of synthesize_voice_full.                                    *)
(***************************************************************************)
\* the call has returned the failure of a chunk (line 268)
ChunkFailureReturned ==
    /\ pc = "done"
    /\ result[1].error # None
    /\ result[1].error[1].msg = "Chunk failed"

\* the call has returned audio
AudioReturned ==
    /\ pc = "done"
    /\ result[1].audio # None

\* number of bytes of the parts before part k
RECURSIVE Offset(_, _)
Offset(parts, k) == IF k <= 1 THEN 0 ELSE Offset(parts, k - 1) + Len(parts[k - 1])

\* C1: a call that has returned gave either audio and no error, the audio
\* holding one segment for every chunk of the text, or no audio and an error
\* message; before the return there is no result at all.
C1_AllOrNothing ==
    IF pc = "done"
    THEN /\ result # None
         /\ \/ /\ result[1].audio # None
               /\ result[1].error = None
               /\ Len(audio_parts) = Len(chunks)
               /\ requested = 1..Len(chunks)
               /\ Len(result[1].audio[1]) = Offset(audio_parts, Len(audio_parts) + 1)
               /\ \A k \in 1..Len(audio_parts) : Len(audio_parts[k]) > 0
            \/ /\ result[1].audio = None
               /\ result[1].error # None
    ELSE result = None

\* C1 witness: a call fails after earlier chunks had produced audio, and that
\* audio is not returned
C1_Witness ==
    /\ ChunkFailureReturned
    /\ audio_parts # <<>>
    /\ result[1].audio = None

\* C2: once every attempt of the budget has been made for chunk k and none
\* gave audio, the call has returned a failure that names ordinal k and the
\* number of chunks, and no chunk after k was ever requested.
C2_AbortOnExhaustedChunk ==
    ( /\ pc \notin {"call", "chunk"}
      /\ Len(chunkLog) = max_retries + 1
      /\ \A a \in 1..Len(chunkLog) : ~(chunkLog[a] # None /\ Len(chunkLog[a][1]) > 0) )
    => /\ pc = "done"
       /\ cpc = "idle"
       /\ result[1].audio = None
       /\ result[1].error # None
       /\ result[1].error[1].msg = "Chunk failed"
       /\ result[1].error[1].ordinal = i + 1
       /\ result[1].error[1].total = Len(chunks)
       /\ \A j \in requested : j <= i + 1

\* C2 witness: chunk 2 of 3 exhausts its attempts, chunk 3 is never requested
C2_Witness ==
    /\ ChunkFailureReturned
    /\ Len(chunks) = 3
    /\ result[1].error[1].ordinal = 2
    /\ result[1].error[1].total = 3
    /\ requested = {1, 2}

\* C3: the audio returned is the audio of chunk 1, chunk 2, ... chunk N laid
\* end to end in that order: part k occupies the bytes after the parts
\* before it, and the lengths add up.
C3_OrderedConcatenation ==
    AudioReturned =>
        /\ Len(audio_parts) = Len(chunks)
        /\ Len(result[1].audio[1]) = Offset(audio_parts, Len(audio_parts) + 1)
        /\ \A k \in 1..Len(audio_parts) :
             SubSeq(result[1].audio[1],
                    Offset(audio_parts, k) + 1,
                    Offset(audio_parts, k) + Len(audio_parts[k])) = audio_parts[k]

\* C3 witness: three chunks whose audio differs are returned joined
C3_Witness ==
    /\ AudioReturned
    /\ Len(chunks) = 3
    /\ audio_parts[1] # audio_parts[2]
    /\ audio_parts[2] # audio_parts[3]

\* C4: when attempt a is the first attempt of the current chunk that returned
\* audio bytes and no error, a attempts were made for it, none follows, and
\* the audio of attempt a is the segment kept for the chunk.
C4_FirstSuccessWins ==
    \A a \in 1..Len(chunkLog) :
        ( /\ pc # "wait"
          /\ chunkLog[a] # None
          /\ \A b \in 1..(a - 1) : chunkLog[b] = None )
        => /\ Len(chunkLog) = a
           /\ attempts = a
           /\ pc \in {"chunk", "done"}
           /\ audio_parts # <<>>
           /\ audio_parts[Len(audio_parts)] = chunkLog[a][1]
           /\ pc = "done" => AudioReturned

\* C5: never more than max_retries + 1 attempts are made for a chunk, and
\* when the failure of a chunk is returned exactly max_retries + 1 attempts
\* were made for it and none gave audio.
C5_RetryBudget ==
    /\ attempts <= max_retries + 1
    /\ Len(chunkLog) <= attempts
    /\ ChunkFailureReturned =>
         /\ attempts = max_retries + 1
         /\ Len(chunkLog) = max_retries + 1
         /\ \A a \in 1..Len(chunkLog) : ~(chunkLog[a] # None /\ Len(chunkLog[a][1]) > 0)
         /\ result[1].error[1].attempts = max_retries + 1

\* C5 witness: a chunk is declared failed after a budget with retries was used up
C5_Witness ==
    /\ ChunkFailureReturned
    /\ max_retries >= 1
    /\ attempts = max_retries + 1

\* C6: the failure of a chunk carries the error of the last attempt made
\* for that chunk, and that error is never missing.
C6_LastErrorReported ==
    ChunkFailureReturned =>
        /\ result[1].error[1].cause # None
        /\ lastReturned # None
        /\ lastReturned[1].chunk = result[1].error[1].ordinal - 1
        /\ result[1].error[1].cause = lastReturned[1].error

(***************************************************************************)
(* Properties of synthesize_voice.                                         *)
(***************************************************************************)
Pending(resp) ==
    /\ ~resp.raised
    /\ ~resp.body[1].isAudioReady
    /\ ~resp.body[1].isAudioError

ReportsReady(resp) == ~resp.raised /\ resp.body[1].isAudioReady

ReportsError(resp) ==
    /\ ~resp.raised
    /\ resp.body[1].isAudioError
    /\ ~resp.body[1].isAudioReady

\* C7: a successful response with an inline payload makes the call return at
\* once, without a status poll or a download, also when the response carries
\* both deferred references; the audio returned is the decoded payload.
C7_InlineResult ==
    (data # None /\ data[1].success /\ data[1].mp3Base64 # None) =>
        /\ cpc = "return"
        /\ pollLog = <<>>
        /\ downloadLog = <<>>
        /\ requests = 1
        /\ b64decode(data[1].mp3Base64[1]) # None =>
             cresult = Some([audio |-> b64decode(data[1].mp3Base64[1]), error |-> None])
        /\ data[1].mp3Base64[1] = JsonString(<<"A", "g", "M", "=">>) =>
             cresult[1].audio = Some(<<2, 3>>)

\* C7 witness: an inline payload arrives together with both references and
\* its bytes are returned
C7_Witness ==
    /\ cpc = "return"
    /\ data # None
    /\ data[1].success
    /\ data[1].audioStatusUrl
    /\ data[1].mp3DownloadUrl
    /\ data[1].mp3Base64 = Some(JsonString(<<"A", "g", "M", "=">>))
    /\ cresult[1].audio = Some(<<2, 3>>)

\* C8: when the k-th status poll is the first to report ready and the polls
\* before it reported neither ready nor an error, exactly k polls are made,
\* then one download, and the bytes the download yields are returned.
C8_DeferredReady ==
    \A k \in 1..Len(pollLog) :
        (ReportsReady(pollLog[k]) /\ \A j \in 1..(k - 1) : Pending(pollLog[j])) =>
            /\ Len(pollLog) = k
            /\ k <= 20
            /\ cpc \in {"download", "return"}
            /\ cpc = "download" => downloadLog = <<>>
            /\ cpc = "return" =>
                 /\ Len(downloadLog) = 1
                 /\ ~downloadLog[1].raised =>
                      cresult = Some([audio |-> downloadLog[1].body, error |-> None])

\* C8 witness: ready on the 3rd poll, the download is returned after 3 polls
C8_Witness ==
    /\ cpc = "return"
    /\ Len(pollLog) = 3
    /\ ReportsReady(pollLog[3])
    /\ Len(downloadLog) = 1
    /\ cresult[1].audio = Some(<<2, 3>>)

\* C9: when the j-th status poll reports an error and not ready, the call
\* has returned a failure after exactly j polls and without a download.
C9_ServiceError ==
    \A j \in 1..Len(pollLog) :
        ReportsError(pollLog[j]) =>
            /\ Len(pollLog) = j
            /\ cpc = "return"
            /\ downloadLog = <<>>
            /\ cresult[1].audio = None
            /\ cresult[1].error # None
            /\ cresult[1].error[1].msg = "Audio generation error"

\* C9 witness: an error on the 2nd poll ends the call
C9_Witness ==
    /\ cpc = "return"
    /\ Len(pollLog) = 2
    /\ ReportsError(pollLog[2])
    /\ cresult[1].audio = None

\* C10: never more than 20 status polls are made; when 20 polls reported
\* neither ready nor an error the call has returned, without a download, the
\* timeout failure, and only then; the failure of a reported error is
\* another one.
C10_PollTimeout ==
    /\ Len(pollLog) <= 20
    /\ (Len(pollLog) = 20 /\ \A k \in 1..20 : Pending(pollLog[k])) =>
         /\ cpc = "return"
         /\ downloadLog = <<>>
         /\ cresult[1].audio = None
         /\ cresult[1].error # None
         /\ cresult[1].error[1].msg = "Timeout after 20s polling"
    /\ (cresult # None /\ cresult[1].error # None
          /\ cresult[1].error[1].msg = "Timeout after 20s polling") =>
         /\ Len(pollLog) = 20
         /\ \A k \in 1..20 : Pending(pollLog[k])
    /\ (cresult # None /\ cresult[1].error # None
          /\ cresult[1].error[1].msg = "Audio generation error") =>
         ReportsError(pollLog[Len(pollLog)])

\* C10 witness: the 20th poll still pending, the timeout is returned
C10_Witness ==
    /\ cpc = "return"
    /\ Len(pollLog) = 20
    /\ \A k \in 1..20 : Pending(pollLog[k])
    /\ cresult[1].error[1].msg = "Timeout after 20s polling"

\* C11: a response that is unsuccessful, whatever else it carries, or that
\* has neither the inline payload nor both deferred references, makes the
\* call return a failure at once: one synthesis request, no status poll, no
\* download.
C11_MalformedResponse ==
    ( /\ data # None
      /\ \/ ~data[1].success
         \/ /\ data[1].mp3Base64 = None
            /\ ~(data[1].audioStatusUrl /\ data[1].mp3DownloadUrl) )
    => /\ cpc = "return"
       /\ cresult[1].audio = None
       /\ cresult[1].error # None
       /\ cresult[1].error[1].msg \in
            {"API returned success=false", "No audioStatusUrl or mp3DownloadUrl in response"}
       /\ requests = 1
       /\ pollLog = <<>>
       /\ downloadLog = <<>>

\* C11 witness: a response with the status reference only is refused
C11_Witness ==
    /\ cpc = "return"
    /\ data # None
    /\ data[1].success
    /\ data[1].mp3Base64 = None
    /\ data[1].audioStatusUrl
    /\ ~data[1].mp3DownloadUrl
    /\ cresult[1].audio = None
    /\ pollLog = <<>>

\* C12: a call one of whose HTTP exchanges ended in a connection error, a
\* non-success status code or a body that is not JSON returns a failure:
\* no audio, and a cause.
C12_NetworkFailure ==
    (httpFailed /\ cpc = "return") =>
        /\ cresult[1].audio = None
        /\ cresult[1].error # None

\* C16: when split_text_for_tts yields no chunk for the text, the call of
\* synthesize_voice_full returns the failure "No text to synthesize" in its
\* first step: no attempt was issued, no request was sent, and neither the
\* pacing wait nor a backoff wait was performed.
C16_EmptyInput ==
    (pc # "call" /\ chunks = <<>>) =>
        /\ pc = "done"
        /\ result = Some(Failure(ErrNoText))
        /\ requested = {}
        /\ attempts = 0
        /\ chunkLog = <<>>
        /\ cpc = "idle"
        /\ requests = 0
        /\ slept.pacing = 0
        /\ slept.backoff = 0

\* the text of blanks only: the chunker drops its only chunk
C16_Witness ==
    /\ pc = "done"
    /\ text = BlankText
    /\ chunks = <<>>
    /\ result[1].error = Some(ErrNoText)
    /\ requested = {}

\* this step issues an attempt: synthesize_voice is called (line 262)
AttemptIssued == attempts' = attempts + 1

\* C20: within one call of synthesize_voice_full the chunks are processed
\* strictly one after the other.  An attempt is in progress only while the
\* call waits for it, and it is for the current chunk; an attempt is issued
\* only when none is in progress; no attempt is issued for a chunk before
\* one already attempted; and the first attempt for a chunk after the first
\* is issued only when every chunk before it has been attempted and has
\* given audio, the one just before it included.
C20_Sequential ==
    /\ [](cpc # "idle" => /\ pc = "wait"
                          /\ i + 1 \in requested
                          /\ \A k \in requested : k <= i + 1)
    /\ [][AttemptIssued =>
            /\ cpc = "idle"
            /\ cpc' # "idle"
            /\ requested' = requested \cup {i + 1}
            /\ \A k \in requested : k <= i + 1
            /\ (i + 1 \notin requested) =>
                  /\ requested = 1..i
                  /\ Len(audio_parts) = i
                  /\ \A k \in 1..i : Len(audio_parts[k]) > 0
                  /\ i > 0 => /\ lastReturned # None
                              /\ lastReturned[1].chunk = i - 1]_vars

\* an attempt for the third chunk is in progress
C20_Witness ==
    /\ pc = "wait"
    /\ cpc # "idle"
    /\ i = 2
    /\ requested = {1, 2, 3}
    /\ Len(audio_parts) = 2

\* C21: the pacing wait and the backoff wait come where the loop puts them.
\* When an attempt is issued, the call has performed one pacing wait for
\* every chunk index from 1 to the current one (none for chunk 0) and, for
\* the current chunk, one backoff wait for every attempt after its first
\* (none before the first); the step that issues the first attempt of a
\* chunk performs no backoff wait, the step that issues a later one performs
\* exactly one; and the step that returns from the call performs no wait, so
\* that no wait follows the final attempt.
C21_PacingBackoff ==
    /\ [](pc \in {"attempt", "wait", "done"} =>
            /\ slept.pacing = i
            /\ slept.backoff = IF attempts = 0 THEN 0 ELSE attempts - 1)
    /\ [][AttemptIssued =>
            /\ slept'.pacing = slept.pacing
            /\ slept'.pacing = i
            /\ slept'.backoff = attempts
            /\ slept'.backoff = IF attempts = 0 THEN slept.backoff
                                ELSE slept.backoff + 1]_vars
    /\ [][pc' = "done" => slept' = slept]_vars

\* a retry of the second chunk is in progress: one pacing wait, one backoff
\* wait
C21_Witness ==
    /\ pc = "wait"
    /\ i = 1
    /\ attempts = 2
    /\ slept.pacing = 1
    /\ slept.backoff = 1

\* C22: every call of synthesize_voice_full returns, after a bounded effort.
\* The call reaches its return; attempts are issued for chunks of the text
\* only; the attempts of one chunk are counted from its first one (the count
\* starts again only at a chunk not attempted before) and are never more
\* than max_retries + 1, so that a text of N chunks gets at most
\* N * (max_retries + 1) attempts; and every attempt sends one synthesis
\* request, at most 20 status polls and at most one download.
C22_BoundedEffort ==
    /\ <>(pc = "done")
    /\ [](/\ attempts <= max_retries + 1
          /\ pc # "call" => requested \subseteq 1..Len(chunks)
          /\ Cardinality(requested) <= Len(chunks)
          /\ requests <= 1
          /\ Len(pollLog) <= 20
          /\ Len(downloadLog) <= 1
          /\ cpc = "return" => requests = 1)
    /\ [][attempts' # attempts =>
            \/ AttemptIssued /\ requests = 0 /\ cpc = "idle"
            \/ attempts' = 0 /\ i + 1 \notin requested]_vars

\* the call has returned after the largest effort for its last chunk: every
\* attempt of the budget was made, and the last one polled 20 times
C22_Witness ==
    /\ pc = "done"
    /\ Len(chunks) >= 2
    /\ requested = 1..Len(chunks)
    /\ max_retries >= 1
    /\ attempts = max_retries + 1
    /\ lastReturned # None
    /\ lastReturned[1].error = Some(ErrPollTimeout)

(***************************************************************************)
(* Properties of split_text_for_tts.                                       *)
(***************************************************************************)
\* the chunks a finished call of split_text_for_tts has returned
SplitChunks == split_out[1].value

\* the stepwise run returns what the operator split_text_for_tts computes
SplitAgrees ==
    split_pc = "done" =>
        SplitChunks = split_text_for_tts(split_text, split_max_len)

\* C13: every chunk that split_text_for_tts returns, for every text (the
\* empty text, blank texts and texts no longer than max_len included), has
\* at most max_len characters and is neither empty nor made of whitespace
\* only.  Violated: a text no longer than max_len is returned as it is, so
\* the empty text gives one empty chunk and a blank text one blank chunk.
C13_ChunkSizeNonEmpty ==
    split_pc = "done" =>
        \A k \in 1..Len(SplitChunks) :
            /\ Len(SplitChunks[k]) <= split_max_len
            /\ SplitChunks[k] # <<>>
            /\ \E j \in 1..Len(SplitChunks[k]) : SplitChunks[k][j] \notin Whitespace

\* the first position from p on that holds no whitespace (Len(s) + 1 if
\* there is none)
SkipWhitespace(s, p) ==
    LET stops == {q \in p..Len(s) : s[q] \notin Whitespace}
    IN  IF stops = {} THEN Len(s) + 1
        ELSE CHOOSE q \in stops : \A r \in stops : q <= r

\* the chunks are consecutive spans of s from position p on, in order, with
\* nothing but whitespace before, between and after them
RECURSIVE CoversFrom(_, _, _)
CoversFrom(s, spans, p) ==
    IF spans = <<>>
    THEN SkipWhitespace(s, p) > Len(s)
    ELSE LET c == Head(spans)
             q == IF c # <<>> /\ c[1] \notin Whitespace
                  THEN SkipWhitespace(s, p)
                  ELSE p
         IN  /\ q + Len(c) - 1 <= Len(s)
             /\ SubSeq(s, q, q + Len(c) - 1) = c
             /\ CoversFrom(s, Tail(spans), q + Len(c))

\* number of characters in the chunks
RECURSIVE TotalLen(_)
TotalLen(spans) == IF spans = <<>> THEN 0 ELSE Len(Head(spans)) + TotalLen(Tail(spans))

\* C14: the chunks that split_text_for_tts returns are, in order, spans of
\* the text that follow one another without overlap and leave out nothing
\* but whitespace at their boundaries: every character of the text that is
\* not whitespace lies in exactly one chunk, in the original order, and the
\* chunks hold no character that the text does not hold at that place.
C14_Lossless ==
    split_pc = "done" => CoversFrom(split_text, SplitChunks, 1)

\* a text that was cut in several chunks, with whitespace dropped at a cut
C14_Witness ==
    /\ split_pc = "done"
    /\ Len(SplitChunks) >= 2
    /\ TotalLen(SplitChunks) < Len(split_text)
    /\ CoversFrom(split_text, SplitChunks, 1)

\* C15: for a text of at most max_len characters split_text_for_tts returns
\* exactly one chunk, the text without its leading and trailing whitespace.
\* Violated: the text is returned as it is, whitespace included.
C15_ShortText ==
    (split_pc = "done" /\ Len(split_text) <= split_max_len) =>
        SplitChunks = <<Strip(split_text)>>

PlainText(s) == \A k \in 1..Len(s) : ~IsDelimiter(s[k]) /\ s[k] \notin Whitespace

\* C23: a text of n > max_len characters with no delimiter and no whitespace
\* is cut at every multiple of max_len: the chunks are the consecutive slices
\* of max_len characters, in order, followed by the n mod max_len remaining
\* characters if there are any; no chunk has more than max_len characters.
C23_ForcedCut ==
    (split_pc = "done" /\ Len(split_text) > split_max_len /\ PlainText(split_text)) =>
        LET n     == Len(split_text)
            whole == n \div split_max_len
            rest  == n % split_max_len
        IN  /\ Len(SplitChunks) = whole + (IF rest = 0 THEN 0 ELSE 1)
            /\ \A k \in 1..whole :
                  SplitChunks[k] =
                      SubSeq(split_text, (k - 1) * split_max_len + 1, k * split_max_len)
            /\ rest # 0 =>
                  SplitChunks[whole + 1] = SubSeq(split_text, whole * split_max_len + 1, n)
            /\ \A k \in 1..Len(SplitChunks) : Len(SplitChunks[k]) <= split_max_len

\* a plain text cut in three slices or more and a shorter last chunk
C23_Witness ==
    /\ split_pc = "done"
    /\ PlainText(split_text)
    /\ Len(split_text) > 3 * split_max_len
    /\ Len(split_text) % split_max_len # 0
    /\ Len(SplitChunks) >= 4
    /\ Len(SplitChunks[Len(SplitChunks)]) < split_max_len

\* C24: in the loop of split_text_for_tts (max_len >= 1) the buffer never
\* holds more than max_len characters, neither after the character of an
\* iteration is appended nor at the end of the iteration; when the buffer
\* reaches max_len in the branch of line 180 it holds no delimiter at an
\* index (counted from 0) above 30; and every iteration that emits a chunk
\* emits the whole buffer, stripped, and leaves the buffer empty: the cut of
\* lines 187-189, which keeps a remainder for the next chunk, is never taken.
C24_NoBackwardCut ==
    /\ [](Len(split_st.current) <= split_max_len)
    /\ [][(split_pc = "scan" /\ split_i' = split_i + 1) =>
            LET char    == split_text[split_i + 1]
                current == Append(split_st.current, char)
            IN  /\ Len(current) <= split_max_len
                /\ (/\ ~(IsDelimiter(char) /\ Len(current) >= 30)
                    /\ Len(current) >= split_max_len) =>
                       \A p \in 1..Len(current) :
                           IsDelimiter(current[p]) => ~(p - 1 > 30)
                /\ split_st'.chunks # split_st.chunks =>
                       /\ split_st'.chunks = Append(split_st.chunks, Strip(current))
                       /\ split_st'.current = <<>>
                /\ split_st'.chunks = split_st.chunks =>
                       split_st'.current = current]_vars

\* a forced cut of a buffer that holds a delimiter: the buffer is emitted
\* whole, the delimiter at its start included
C24_Witness ==
    /\ split_pc = "scan"
    /\ split_st.current = <<>>
    /\ Len(split_st.chunks) >= 1
    /\ LET c == split_st.chunks[Len(split_st.chunks)]
       IN  /\ Len(c) = split_max_len
           /\ split_max_len > 30
           /\ IsDelimiter(c[1])
           /\ ~IsDelimiter(c[Len(c)])

(***************************************************************************)
(* Properties of build_summary_prompt / build_prompt.                      *)
(***************************************************************************)
\* C17: for every text longer than max_chars and every max_chars >= 0, the
\* very small ones included, the clipped text has at most max_chars plus the
\* length of the elision marker characters.  Violated: for max_chars <= 3
\* the tail is the whole text.
C17_ClipLength ==
    (clip_pc = "done" /\ Len(clip_text) > clip_max_chars /\ clip_max_chars >= 0) =>
        Len(clipped[1]) <= clip_max_chars + Len(ElisionMarker)

\* C18: the clipped text is the text itself when the text has at most
\* max_chars characters; otherwise it is the first floor(0.7 * max_chars)
\* characters of the text, the elision marker, and the last
\* floor(0.3 * max_chars) characters of the text.  Violated: for
\* max_chars <= 3 the tail is the whole text, and for max_chars = 90 the head
\* has 62 characters, not 63.
C18_ClipContent ==
    clip_pc = "done" =>
        IF Len(clip_text) <= clip_max_chars
        THEN clipped[1] = clip_text
        ELSE LET h == (7 * clip_max_chars) \div 10
                 t == (3 * clip_max_chars) \div 10
                 n == Len(clip_text)
             IN  clipped[1] = SubSeq(clip_text, 1, h) \o ElisionMarker
                                \o SubSeq(clip_text, n - t + 1, n)

(***************************************************************************)
(* Properties of the prompt presets.                                       *)
(***************************************************************************)
\* C25: from every store that load_store returns, and after every sequence
\* of runs of the settings tab, the store has at least one preset and its
\* active name is the name of one of them, and no run has raised.  Violated:
\* load_store returns a store without presets for a file whose prompts are
\* an empty dict, and deleting the only preset of a store raises
\* StopIteration and leaves the store without presets.
C25_StoreValid ==
    store_pc = "idle" =>
        /\ prompt_store.prompts # <<>>
        /\ HasKey(prompt_store.prompts, prompt_store.active)
        /\ ~store_raised

====
